---- MODULE Spec2Model ----
(***************************************************************************)
(* A room server of the multiplayer game: the room engine of               *)
(* GameEngine.py (clients on a 9x9 grid, interactive items) and the        *)
(* durability layer and poll loop of GameServer.py (command log,           *)
(* checkpoint, replay on startup, poll rounds).                            *)
(*                                                                         *)
(* Representation.  A position, the text "x:y" in the source, is the pair  *)
(* <<x, y>>; f"{x}:{y}" and map(int, s.split(':')) are exact inverses on   *)
(* integers.  A client id is [kind, text]: the JSON value the client       *)
(* sends, an integer (kind "int") or a string (kind "str"), with its       *)
(* decimal text or its characters.  A Python dict is a function; the       *)
(* room dict lists the random item first and the chest of '1:1' last.      *)
(***************************************************************************)
EXTENDS Integers, Sequences, FiniteSets, TLC

(***************************************************************************)
(* Program constants.                                                      *)
(***************************************************************************)
room_dimension == 8

CkptLimit == 100

\* run_server: the seconds (poll intervals) the shutdown timer runs.
shutdown_timeout == 5

\* ThreadPoolExecutor() of Cluster.__init__, line 68: without max_workers
\* the pool has min(32, cpu_count + 4) workers, at least this many.
max_workers == 5

\* INTERACTIVE_ITEMS: the two templates (the message texts of a template
\* are determined by its name, so a response names the message field).
INTERACTIVE_ITEMS ==
    << [name |-> "chest", uses |-> 10, emptied_this_round |-> FALSE],
       [name |-> "fire",  uses |-> 5,  emptied_this_round |-> FALSE] >>

\* The chest Game.__init__ always places at '1:1'.
FixedCell == <<1, 1>>

FixedChest == [name |-> "chest", uses |-> 10, emptied_this_round |-> FALSE]

(***************************************************************************)
(* Bounds of the model.                                                    *)
(***************************************************************************)
\* How many times a run may start the room process again.
MaxBoots == 2

\* Up to where the poll intervals of idleness are counted.
IdleCap == shutdown_timeout + 3

\* The cells randint draws in the model: the cell clients are added at and
\* the cell of the fixed chest (the draw there is overwritten by the chest).
RandCells == { <<4, 4>>, <<1, 1>> }

\* Client ids on the wire: a string id (the CLI's) and an integer id (Test.py's).
IdA == [kind |-> "str", text |-> "a"]

Id1 == [kind |-> "int", text |-> "1"]

Socks == {"s1", "s2", "s3"}

\* The client program behind each stream connection sends its own id (s3
\* is a second connection of the client of s1).
Peer == [s \in Socks |-> IF s = "s2" THEN Id1 ELSE IdA]

NoAddr == "none"

(***************************************************************************)
(* JSON.  json.dumps turns a dict key that is an integer into its decimal  *)
(* text; json.loads gives every key back as a string.  Values keep their   *)
(* type.                                                                   *)
(***************************************************************************)
JsonKey(c) == [kind |-> "str", text |-> c.text]

\* json.loads(json.dumps(d)) for a dict d keyed by client ids (no two keys
\* of d have the same text in the model).
JsonDict(d) ==
    [k \in { JsonKey(c) : c \in DOMAIN d } |->
        d[CHOOSE c \in DOMAIN d : JsonKey(c) = k]]

(***************************************************************************)
(* The room engine (class Game).  An engine state is E = [room, clients];  *)
(* a handler yields [room, clients, ret], ret the response, or Raised when *)
(* the handler raises.                                                     *)
(***************************************************************************)
Raised == [kind |-> "raise"]

Result(rm, cl, r) == [room |-> rm, clients |-> cl, ret |-> r]

\* Game.__init__: the room for a draw of the cell and of the template.
NewRoom(tm, cell, t) ==
    IF cell = FixedCell
    THEN (FixedCell :> FixedChest)
    ELSE (cell :> tm[t]) @@ (FixedCell :> FixedChest)

Center == << room_dimension \div 2, room_dimension \div 2 >>

\* An add_client that puts the client on the centre whenever it is called.
add_client_relocate(E, client) ==
    Result(E.room, (client :> Center) @@ E.clients,
           [kind |-> "added", pos |-> Center])

\* Game.add_client
add_client(E, client) ==
    IF client \in DOMAIN E.clients
    THEN Result(E.room, E.clients,
                [kind |-> "added", pos |-> E.clients[client]])
    ELSE Result(E.room, (client :> Center) @@ E.clients,
                [kind |-> "added", pos |-> Center])

\* Median without the upper limit (a clamp that forgets the far wall).
MedianNoUpper(d) == IF d < 0 THEN 0 ELSE d

\* sorted((0, d, room_dimension))[1]
Median(d) == IF d < 0 THEN 0 ELSE IF d > room_dimension THEN room_dimension ELSE d

\* Game._move: the new position, then the new client map and whether the
\* room was left sideways (new_x != desired_x).
MoveTo(E, client, x, y) ==
    << Median(E.clients[client][1] + x), Median(E.clients[client][2] + y) >>

move(E, client, x, y) ==
    [clients |-> [E.clients EXCEPT ![client] = MoveTo(E, client, x, y)],
     exit    |-> MoveTo(E, client, x, y)[1] # E.clients[client][1] + x]

NotInRoom == [kind |-> "error", error |-> "client not in room"]

Success(s) == [kind |-> "success", success |-> s]

up(E, client) ==
    IF client \notin DOMAIN E.clients
    THEN Result(E.room, E.clients, NotInRoom)
    ELSE Result(E.room, move(E, client, 0, 1).clients, Success("move up"))

down(E, client) ==
    IF client \notin DOMAIN E.clients
    THEN Result(E.room, E.clients, NotInRoom)
    ELSE Result(E.room, move(E, client, 0, -1).clients, Success("move down"))

\* A left that never signals the exit.
left_no_exit(E, client) ==
    IF client \notin DOMAIN E.clients
    THEN Result(E.room, E.clients, NotInRoom)
    ELSE Result(E.room, move(E, client, -1, 0).clients, Success("move left"))

left(E, client) ==
    IF client \notin DOMAIN E.clients
    THEN Result(E.room, E.clients, NotInRoom)
    ELSE Result(E.room, move(E, client, -1, 0).clients,
                IF move(E, client, -1, 0).exit
                THEN Success("exit left") ELSE Success("move left"))

right(E, client) ==
    IF client \notin DOMAIN E.clients
    THEN Result(E.room, E.clients, NotInRoom)
    ELSE Result(E.room, move(E, client, 1, 0).clients,
                IF move(E, client, 1, 0).exit
                THEN Success("exit right") ELSE Success("move right"))

Msg(field, name) == [kind |-> "msg", msg |-> field, item |-> name]

\* A use that takes two uses off the item.
UseItemTwice(it) ==
    [it EXCEPT !.uses = it.uses - 2,
               !.emptied_this_round = (it.uses - 2 = 0)]

\* The item after a use: one use less, marked when that emptied it.
UseItem(it) ==
    [it EXCEPT !.uses = it.uses - 1,
               !.emptied_this_round = (it.uses - 1 = 0)]

\* Game.interact.  self.clients[client] raises KeyError for a client that is
\* not in the room; ' '.join(...) and 'and ' + ... raise TypeError when a
\* client sharing the cell has an integer id.
interact(E, client) ==
    IF client \notin DOMAIN E.clients
    THEN Result(E.room, E.clients, Raised)
    ELSE LET pos == E.clients[client]
             matching_clients ==
                 { c \in DOMAIN E.clients : c # client /\ E.clients[c] = pos }
         IN  IF pos \in DOMAIN E.room
             THEN IF ~E.room[pos].emptied_this_round
                  THEN IF E.room[pos].uses = 0
                       THEN Result(E.room, E.clients,
                                   Msg("empty_message", E.room[pos].name))
                       ELSE Result([E.room EXCEPT ![pos] = UseItem(@)],
                                   E.clients,
                                   Msg("use_message", E.room[pos].name))
                  ELSE Result(E.room, E.clients,
                              Msg("conflict_message", E.room[pos].name))
             ELSE IF matching_clients = {}
                  THEN Result(E.room, E.clients,
                              Msg("INTERACT_FAIL_MESSAGES", "floor"))
                  ELSE IF \E c \in matching_clients : c.kind = "int"
                       THEN Result(E.room, E.clients, Raised)
                       ELSE Result(E.room, E.clients,
                                   Msg("INTERACT_ON_OTHER_USER", "floor"))

\* An end of round that leaves the markers as they are.
KeepMarkers(rm) == rm

\* Game.clear_empty_markers: every item's marker is reset.
clear_empty_markers(rm) ==
    [p \in DOMAIN rm |-> [rm[p] EXCEPT !.emptied_this_round = FALSE]]

\* {val['name']: key for key, val in self.room.items()}: one entry per name,
\* the item listed last (the chest of '1:1') winning.
RoomItems(rm) ==
    [n \in { rm[p].name : p \in DOMAIN rm } |->
        IF rm[FixedCell].name = n THEN FixedCell
        ELSE CHOOSE p \in DOMAIN rm : rm[p].name = n]

get_room(E, connected_clients) ==
    Result(E.room, E.clients,
           [kind |-> "room", items |-> RoomItems(E.room),
            clients |-> connected_clients])

command_map ==
    {"add_client", "up", "down", "left", "right", "interact", "get_room"}

(***************************************************************************)
(* The room server (class GameServer with engine Game).                    *)
(***************************************************************************)
VARIABLES
    room,           \* engine.room: cell -> item
    clients,        \* engine.clients: client id -> position
    log,            \* the lines of the log file, each a command
    log_length,     \* self.log_length
    ckpt,           \* the checkpoint file: NoCkpt, or its two JSON documents
    connections,    \* self.connections: client id -> broadcast address
    socket_id_map,  \* self.socket_id_map: stream socket -> client id
    conns,          \* the accepted stream sockets (fd_to_socket, less self.sock)
    served,         \* the ready sockets this poll round has handled
    can_shutdown,   \* run_server's can_shutdown
    pc,             \* where the room is: "queued" (constructed, run_server
                    \* not yet called), "poll", "round", "applied", "ckpt",
                    \* "trunc", "recv" (inside sock.recv of _recv_all, with
                    \* no bytes to read), "closing" (shutdown message sent),
                    \* "returned"
                    \* (run_server has returned), or "down" (not running)
    cur,            \* the command being handled, or handled last
    ret,            \* its return_message
    plan,           \* what the clients and the operator will do
    ip,             \* how many events of the plan have happened
    boots,          \* how many times the room was started again
    errors,         \* self.lifetime_stats["errors"] (0 while absent)
    frames,         \* self.frames
    need_to_broadcast, \* run_server's need_to_broadcast
    timer,          \* time() - shutdown_requested in poll intervals, while
                    \* can_shutdown (0 otherwise)
    tmpl,           \* the dicts of the module-level INTERACTIVE_ITEMS of the
                    \* running process
    shared,         \* which of them the room's drawn item is (the same
                    \* object), and on which cell
    server_map,     \* Cluster._server_map: the room ids of the directory
    futures,        \* Cluster.futures: room id -> state of its run_server
    shutdown_msg,   \* a shutdown_room message is on its way to the cluster
    cl_pc,          \* the cluster's loop: "serve", "wait" (in
                    \* futures[id].result()), "returned" or "dead"
    addr_given,     \* the address get_room_server returned last for the
                    \* room; 0 when none since the start of the cluster
                    \* or the last shutdown_room
    other,          \* the template a second room of the cluster drew for
                    \* its item (the same object); 0 when there is none
    chunks,         \* the reads still to come on a connection: what
                    \* successive recv calls will return
    data,           \* _recv_all's data
    out,            \* what _recv_all returned, NoOut while it has not
    payload,        \* the payload of the message the sender sent
    pool,           \* the workers of Cluster.executor that run other rooms
    cl_can_shutdown, \* can_shutdown of the cluster's run_server
    cl_timer,       \* its time() - shutdown_requested, in poll intervals
                    \* begun, while cl_can_shutdown (0 otherwise)
    cl_conns,       \* how many clients are connected to the cluster
    client_dir,     \* Cluster._clients: client id -> last room
    quiet,          \* history: the room server has read no request since
                    \* it was constructed
    seen,           \* history: GameClient.running_frame of a client that
                    \* has received every snapshot sent under the room's id
    died,           \* history: the value of pc when the process last ended
    emptied_now,    \* history: the cells whose item reached zero uses in
                    \* the current poll round
    mutated_now,    \* history: a command that acts on the engine's state
                    \* was processed in the current poll round
    error_responses, \* history: the error responses this server has sent
    last_frame,     \* history: the frame of the last snapshot this server sent
    idle_for        \* history: 0 while the room has not lost its last
                    \* connection; after that, 1 + the poll intervals it
                    \* has been without connection, nothing more to come

engine == << room, clients >>

disk == << log, ckpt >>

net == << connections, socket_id_map, conns, served, can_shutdown >>

env == << plan, boots >>

hist == << died, emptied_now, mutated_now >>

stats == << errors, frames, error_responses, last_frame >>

process == << tmpl, shared >>

cluster == << server_map, futures, shutdown_msg, cl_pc >>

framing == << chunks, data, out, payload >>

cl_loop == << cl_can_shutdown, cl_timer, cl_conns >>

coord == << pool, cl_loop, client_dir >>

since == << quiet, seen >>

vars == << room, clients, log, log_length, ckpt, connections, socket_id_map,
           conns, served, can_shutdown, pc, cur, ret, plan, ip, boots,
           errors, frames, need_to_broadcast, timer, tmpl, shared,
           server_map, futures, shutdown_msg, cl_pc, addr_given, other,
           chunks, data, out, payload,
           pool, cl_can_shutdown, cl_timer, cl_conns, client_dir, quiet, seen,
           died, emptied_now, mutated_now, error_responses, last_frame,
           idle_for >>

NoCkpt == [exists |-> FALSE]

NoMap == [c \in {} |-> NoAddr]

NoCmd == [method |-> "none", client |-> IdA, broadcast_addr |-> NoAddr, sock |-> "none"]

NoRet == [kind |-> "none"]

NoOut == << "none" >>

\* The port of the room server the b-th start made (port=0: the system
\* gives every new server a port of its own).
AddrOf(b) == b + 1

\* The engine state as a value.
Eng(rm, cl) == [room |-> rm, clients |-> cl]

\* The values of a dict.
Values(d) == { d[k] : k \in DOMAIN d }

\* dict.pop(k) of a key that is there.
Pop(d, k) == [x \in DOMAIN d \ {k} |-> d[x]]

(***************************************************************************)
(* The module-level templates.  choice(INTERACTIVE_ITEMS) hands out the    *)
(* dict itself, so what the room does to its drawn item it does to the     *)
(* template, for as long as the process lives.                             *)
(***************************************************************************)
NoShare == [t |-> 0, cell |-> FixedCell]

\* The drawn item stays the template object unless the '1:1' entry
\* replaced it in the dict literal or _load_server replaced the room.
SharedOf(cell, t, ck) ==
    IF cell = FixedCell \/ (ck.exists /\ ck.form = "ok") THEN NoShare
    ELSE [t |-> t, cell |-> cell]

TmplAfter(tm, sh, rm) ==
    IF sh.t = 0 THEN tm ELSE [tm EXCEPT ![sh.t] = rm[sh.cell]]

(***************************************************************************)
(* _parse_command, in the pieces a crash can separate.                     *)
(***************************************************************************)
\* Lines 375-377: a command carrying broadcast_addr binds it to its client.
Bind(conn, cmd) ==
    IF cmd.broadcast_addr # NoAddr
    THEN (cmd.client :> cmd.broadcast_addr) @@ conn
    ELSE conn

\* An unknown method answered as if it had been carried out.
UnknownMethodDone == [kind |-> "success", success |-> "method"]

UnknownMethod == [kind |-> "error", error |-> "method does not exist"]

Malformed == [kind |-> "error", error |-> "malformed incomming command"]

NotJson == [kind |-> "error", error |-> "must be formatted as json"]

\* Lines 398-403: the errors statistic after a return_message.
CountError(n, r) == IF r.kind = "error" THEN n + 1 ELSE n

\* Lines 381-387: the call of the engine's handler.  For get_room the
\* server first builds {c: engine.clients[c] for c in socket_id_map.values()},
\* which raises KeyError when a connected client is not in the room.
CallEngine(E, cmd, alive) ==
    CASE cmd.method = "add_client" -> add_client(E, cmd.client)
      [] cmd.method = "up"         -> up(E, cmd.client)
      [] cmd.method = "down"       -> down(E, cmd.client)
      [] cmd.method = "left"       -> left(E, cmd.client)
      [] cmd.method = "right"      -> right(E, cmd.client)
      [] cmd.method = "interact"   -> interact(E, cmd.client)
      [] cmd.method = "get_room"   ->
            IF alive \subseteq DOMAIN E.clients
            THEN get_room(E, [c \in alive |-> E.clients[c]])
            ELSE Result(E.room, E.clients, Raised)

\* The commands that act on the engine's state (all but get_room), when
\* the engine did not reject them.
MutatingMethods == {"add_client", "up", "down", "left", "right", "interact"}

Mutating(cmd, r) == cmd.method \in MutatingMethods /\ r.kind # "error"

\* A write that puts the line in front of the file.
PrependLine(lg, line) == << line >> \o lg

\* self.log_file.write(...) on the file opened for appending.
AppendLine(lg, line) == Append(lg, line)

\* Lines 389-394: whether a handled command is written to the log.
ShouldLog(cmd, r, read_from_log) == ~read_from_log

\* The log line of a command: json.dumps(incoming_command).
LogLine(cmd) ==
    [method |-> cmd.method, client |-> cmd.client,
     broadcast_addr |-> cmd.broadcast_addr]

\* _update_ckpt, lines 313-319: the two JSON documents of the new checkpoint.
CkptOf(E) ==
    [exists |-> TRUE, form |-> "ok", room |-> E.room,
     clients |-> JsonDict(E.clients)]

\* What a checkpoint file that _update_ckpt did not write may be: not two
\* lines ("lines"), two lines of which one is no JSON ("notjson"), two
\* JSON lines of which one is no object ("notmap").
CkptForms == {"lines", "notjson", "notmap"}

Damaged(f) == [exists |-> TRUE, form |-> f, room |-> << >>, clients |-> NoMap]

\* _load_server, lines 244-245: json.loads raises JSONDecodeError, and the
\* try catches FileNotFoundError alone, so the constructor raises.
StartFails(ck) == ck.exists /\ ck.form = "notjson"

\* _load_server: the engine after reading the checkpoint file.  A file
\* that does not have two lines is read as '{}' and '{}' (lines 234-242),
\* and empty or non-dict documents leave the engine as it is (248-259).
load_server(E, ck) ==
    IF ~ck.exists \/ ck.form \in {"lines", "notmap"} THEN E
    ELSE [room    |-> IF DOMAIN ck.room # {} THEN ck.room ELSE E.room,
          clients |-> IF DOMAIN ck.clients # {} THEN ck.clients ELSE E.clients]

\* The argument _load_from_log passes for read_from_log (line 285 passes
\* none, so the default False).
ReplayReadFromLog == FALSE

\* One line of _load_from_log: _parse_command(jdata) on the state
\* S = [room, clients, log, log_length, ckpt, connections, errors], no
\* socket being connected.  An exception is caught and the line dropped.
ReplayLine(S, line) ==
    LET cmd  == [method |-> line.method, client |-> line.client,
                 broadcast_addr |-> line.broadcast_addr]
        conn == Bind(S.connections, cmd)
        r    == CallEngine(Eng(S.room, S.clients), cmd, {})
        n    == S.log_length + 1
    IN  IF cmd.method \notin command_map
        THEN [S EXCEPT !.connections = conn,
                       !.errors = CountError(S.errors, UnknownMethod)]
        ELSE IF r.ret.kind = "raise"
        THEN [S EXCEPT !.connections = conn]
        ELSE IF ~ShouldLog(cmd, r.ret, ReplayReadFromLog)
        THEN [S EXCEPT !.connections = conn, !.room = r.room,
                       !.clients = r.clients,
                       !.errors = CountError(S.errors, r.ret)]
        ELSE IF n > CkptLimit
        THEN [room |-> r.room, clients |-> r.clients, log |-> << >>,
              log_length |-> 0, ckpt |-> CkptOf(Eng(r.room, r.clients)),
              connections |-> conn, errors |-> CountError(S.errors, r.ret)]
        ELSE [room |-> r.room, clients |-> r.clients,
              log |-> AppendLine(S.log, LogLine(cmd)), log_length |-> n,
              ckpt |-> S.ckpt, connections |-> conn,
              errors |-> CountError(S.errors, r.ret)]

\* The loop of _load_from_log over log_lines[lo..hi], in order.  (The range
\* is split in halves, and the state after the first half computed before
\* the second is entered, only to keep the evaluation shallow.)
RECURSIVE ReplayFrom(_, _, _, _)
ReplayFrom(S, lines, lo, hi) ==
    IF lo > hi THEN S
    ELSE IF lo = hi THEN ReplayLine(S, lines[lo])
    ELSE LET mid == (lo + hi) \div 2
             T   == ReplayFrom(S, lines, lo, mid)
         IN  IF T.log_length >= 0
             THEN ReplayFrom(T, lines, mid + 1, hi)
             ELSE T

\* _load_from_log: log_lines are read once, then each is parsed in turn.
load_from_log(S) == ReplayFrom(S, S.log, 1, Len(S.log))

\* GameServer.__init__ on the files on disk, for a draw of Game.__init__
\* from the templates tm as the process holds them.
Startup(tm, cell, t, lg, ck) ==
    LET E0 == Eng(NewRoom(tm, cell, t), NoMap)
        E1 == load_server(E0, ck)
    IN  load_from_log([room |-> E1.room, clients |-> E1.clients, log |-> lg,
                       log_length |-> 0, ckpt |-> ck, connections |-> NoMap,
                       errors |-> 0])

(***************************************************************************)
(* The environment: what the clients do, in order, and the points at which *)
(* the operator may kill the process.  A plan is [ev, kills]: ev the       *)
(* events, each [s, m]: on socket s a request of method m, or bytes that   *)
(* are no JSON ("garbage"), or a JSON object without method and client     *)
(* ("malformed"), or the first bytes of a frame with no terminator         *)
(* ("partial"), or the end of the connection ("close"); an event of        *)
(* socket "ops" is a request to the cluster, an event of "r2" something    *)
(* the cluster's second room does, an event of "r3" something a further    *)
(* room does, an event of "disk" damage to the checkpoint file.  kills are *)
(* the numbers of                                                          *)
(* past events at which a kill may strike (at any step of the handling of  *)
(* that event, or after it).                                               *)
(***************************************************************************)
Ev(s, m) == [s |-> s, m |-> m]

Rep(e, k) == [i \in 1..k |-> e]

\* Walk to a wall and push against it.
WalkPlan(m) ==
    [ev    |-> << Ev("s1", "add_client") >> \o Rep(Ev("s1", m), 6),
     kills |-> {3}]

\* Two clients on the spawn cell use up the item there.
FirePlan ==
    [ev    |-> << Ev("s1", "add_client"), Ev("s2", "add_client") >>
               \o Rep(Ev("s1", "interact"), 5)
               \o << Ev("s2", "interact"), Ev("s1", "interact"),
                     Ev("s2", "interact"), Ev("s1", "get_room") >>,
     kills |-> {}]

\* One client walks to the chest of '1:1' and uses it up.
ChestPlan ==
    [ev    |-> << Ev("s1", "add_client") >> \o Rep(Ev("s1", "left"), 3)
               \o Rep(Ev("s1", "down"), 3) \o Rep(Ev("s1", "interact"), 12),
     kills |-> {17}]

\* Requests the engine or the server rejects.
ErrorPlan ==
    [ev    |-> << Ev("s1", "up"), Ev("s1", "jump"), Ev("s2", "add_client"),
                  Ev("s1", "left"), Ev("s1", "add_client"),
                  Ev("s1", "get_room"), Ev("s2", "get_room") >>,
     kills |-> {4}]

\* An integer client id crosses the checkpoint limit.
CkptIntPlan ==
    [ev    |-> << Ev("s2", "add_client") >> \o Rep(Ev("s2", "up"), CkptLimit)
               \o << Ev("s2", "up"), Ev("s2", "add_client") >>,
     kills |-> {CkptLimit + 1}]

\* A string client id crosses the checkpoint limit with the interact that
\* uses up a fire on the spawn cell.
CkptStrPlan ==
    [ev    |-> << Ev("s1", "add_client") >>
               \o Rep(Ev("s1", "get_room"), CkptLimit - 5)
               \o Rep(Ev("s1", "interact"), 7),
     kills |-> {CkptLimit + 1, CkptLimit + 2}]

\* A restart with a log more than half way to the limit.
HalfPlan ==
    [ev    |-> << Ev("s1", "add_client") >> \o Rep(Ev("s1", "up"), 104),
     kills |-> {60}]

\* A client moves away and asks to be added again.
ReturnPlan ==
    [ev    |-> << Ev("s1", "add_client"), Ev("s1", "right"), Ev("s1", "up"),
                  Ev("s1", "add_client"), Ev("s1", "add_client") >>,
     kills |-> {}]

\* A connection whose client was never added moves, then another client
\* asks for the room.
GhostPlan ==
    [ev    |-> << Ev("s2", "add_client"), Ev("s1", "up"),
                  Ev("s2", "get_room") >>,
     kills |-> {}]

\* A client that was never added interacts.
StrangerPlan ==
    [ev    |-> << Ev("s2", "add_client"), Ev("s1", "interact") >>,
     kills |-> {}]

\* Two clients come, use the item of the spawn cell, and leave.
LeavePlan ==
    [ev    |-> << Ev("s1", "add_client"), Ev("s2", "add_client"),
                  Ev("s1", "interact"), Ev("s1", "close"),
                  Ev("s2", "close") >>,
     kills |-> {}]

\* A connection that ends without having sent a request.
SilentPlan ==
    [ev    |-> << Ev("s2", "add_client"), Ev("s1", "close") >>,
     kills |-> {}]

\* A connection whose client never sent broadcast_addr ends.
NoAddrPlan ==
    [ev    |-> << Ev("s1", "up"), Ev("s1", "close") >>,
     kills |-> {}]

\* Two connections under one client id end one after the other.
TwinPlan ==
    [ev    |-> << Ev("s1", "add_client"), Ev("s3", "add_client"),
                  Ev("s1", "close"), Ev("s3", "right"), Ev("s3", "close") >>,
     kills |-> {}]

\* Bodies that are no command.
BadPlan ==
    [ev    |-> << Ev("s1", "add_client"), Ev("s1", "garbage"),
                  Ev("s1", "malformed"), Ev("s1", "jump"),
                  Ev("s1", "close") >>,
     kills |-> {}]

\* The cluster runs a second room, whose clients use its item while two
\* clients use the item of the first.
NeighbourPlan ==
    [ev    |-> << Ev("s1", "add_client"), Ev("s2", "add_client"),
                  Ev("ops", "get_room_server_2"), Ev("r2", "interact") >>
               \o Rep(Ev("s1", "interact"), 4)
               \o << Ev("r2", "round"), Ev("s2", "interact") >>,
     kills |-> {}]

\* The process is killed after two requests, the checkpoint file is
\* damaged, and the client comes back to the restarted room.
DamagePlan ==
    [ev    |-> << Ev("s1", "add_client"), Ev("s1", "right"),
                  Ev("disk", "damage"), Ev("s1", "add_client"),
                  Ev("s1", "right") >>,
     kills |-> {2}]

\* A client sends the beginning of a frame and then nothing, while
\* another client has a request to make.
StuckPlan ==
    [ev    |-> << Ev("s1", "add_client"), Ev("s2", "add_client"),
                  Ev("s1", "partial"), Ev("s2", "up") >>,
     kills |-> {}]

\* A client sends the beginning of a frame and closes its connection.
HangUpPlan ==
    [ev    |-> << Ev("s1", "add_client"), Ev("s1", "partial"),
                  Ev("s1", "close") >>,
     kills |-> {}]

\* The room is left and reaped; the cluster is asked for as many other
\* rooms as the executor has workers, then for the room again; later one
\* of the other rooms ends.
PoolPlan ==
    [ev    |-> << Ev("s1", "add_client"), Ev("s1", "close"),
                  Ev("ops", "get_room_server_2") >>
               \o Rep(Ev("ops", "get_room_server_more"), max_workers - 1)
               \o << Ev("r3", "return") >>,
     kills |-> {}]

\* Clients ask the cluster for the room while it runs and after its
\* client has left.
AskPlan ==
    [ev    |-> << Ev("s1", "add_client"), Ev("ops", "get_room_server"),
                  Ev("s1", "close"), Ev("ops", "get_room_server"),
                  Ev("ops", "get_room_server") >>,
     kills |-> {}]

\* A client leaves, comes back on a new connection and asks for the room.
RejoinPlan ==
    [ev    |-> << Ev("s1", "add_client"), Ev("s2", "add_client"),
                  Ev("s1", "close"), Ev("s2", "get_room"),
                  Ev("s1", "get_room"), Ev("s1", "add_client") >>,
     kills |-> {}]

\* While a client is in the room, somebody asks the cluster to shut the
\* room down.
ReapPlan ==
    [ev    |-> << Ev("s1", "add_client"), Ev("ops", "shutdown_room"),
                  Ev("s1", "up"), Ev("s1", "close") >>,
     kills |-> {}]

\* Clients of the cluster connect, leave it alone for a poll interval and
\* then close their connections one after the other.
ClusterIdlePlan ==
    [ev    |-> Rep(Ev("ops", "connect"), shutdown_timeout + 1)
               \o << Ev("ops", "timeout") >>
               \o Rep(Ev("ops", "close"), shutdown_timeout + 1),
     kills |-> {}]

\* A client of the cluster sends shutdown_room with the id of no room.
UnknownRoomPlan ==
    [ev    |-> << Ev("s1", "add_client"), Ev("ops", "shutdown_room_unknown"),
                  Ev("s1", "up"), Ev("ops", "get_room_server") >>,
     kills |-> {}]

\* Clients register with the cluster, one goes to the room and leaves it,
\* and a client registers again.
RegisterPlan ==
    [ev    |-> << Ev("ops", "register_new_client"),
                  Ev("ops", "register_new_client"),
                  Ev("ops", "get_room_server"), Ev("s1", "add_client"),
                  Ev("s1", "up"), Ev("s1", "close"),
                  Ev("ops", "register_new_client") >>,
     kills |-> {}]

\* The scripts, the cluster started with --use_udp.
UdpPlans ==
    { WalkPlan(m) : m \in {"up", "down", "left", "right"} }
    \cup { FirePlan, ChestPlan, ErrorPlan, CkptIntPlan, CkptStrPlan, HalfPlan }
    \cup { ReturnPlan, GhostPlan, StrangerPlan }
    \cup { LeavePlan, SilentPlan, NoAddrPlan, TwinPlan, BadPlan, ReapPlan }
    \cup { RejoinPlan, AskPlan, NeighbourPlan, DamagePlan, PoolPlan }
    \cup { StuckPlan, HangUpPlan, ClusterIdlePlan, UnknownRoomPlan }
    \cup { RegisterPlan }

\* The scripts, the cluster started without it.
NoUdpPlans == { ReturnPlan, LeavePlan }

\* A script together with how the operator started the cluster.
Started(p, u) == [ev |-> p.ev, kills |-> p.kills, use_udp |-> u]

Plans ==
    { Started(p, TRUE) : p \in UdpPlans }
    \cup { Started(p, FALSE) : p \in NoUdpPlans }

BAddr ==
    [s \in Socks |-> IF s = "s1" THEN "host:5001"
                     ELSE IF s = "s2" THEN "host:5002" ELSE "host:5003"]

\* The events that are no JSON object with method and client.
NotRequests == {"close", "garbage", "malformed", "partial"}

\* The JSON document a client sends: GameClient sends broadcast_addr with
\* add_client alone.
Request(e) ==
    [method |-> e.m, client |-> Peer[e.s],
     broadcast_addr |-> IF e.m = "add_client" THEN BAddr[e.s] ELSE NoAddr,
     sock |-> e.s]

(***************************************************************************)
(* The cluster (class Cluster of ServerCluster.py) around the room: its    *)
(* directory, the future of the room's run_server, and its own loop.       *)
(***************************************************************************)
\* The id under which the cluster runs the room.
room_id == "room"

\* The id of a second room of the cluster.
room_id2 == "room2"

\* A directory that never finds a room.
KnownNever(id, dir) == FALSE

\* get_room_server, line 84: if id in self._server_map.
Known(id, dir) == id \in dir

\* A wait that does not wait.
CompletedOrNot(f) == f \in {"done", "running"}

\* futures[id].result() returns once run_server has returned.
Completed(f) == f = "done"

\* A room that waits for the answer.
AwaitsReplyYes == TRUE

\* Whether the room reads the cluster's answer to shutdown_room before it
\* goes on (_send_shutdown_message only sends).
AwaitsReply == FALSE

\* The keyword arguments GameServer.__init__ builds the Cluster engine
\* with, u being the operator's --use_udp.
ClusterArgs(u) == [host |-> "", use_udp |-> u]

\* get_room_server: udp = True when 'use_udp' is a key of the arguments.
UdpOf(args) == "use_udp" \in DOMAIN args

\* The broadcast_with_udp of the room the cluster spawns.
broadcast_with_udp == UdpOf(ClusterArgs(plan.use_udp))

(***************************************************************************)
(* Init: the cluster has started and get_room_server has spawned the room  *)
(* on no files.                                                            *)
(***************************************************************************)
RoomInit ==
    /\ plan \in Plans
    /\ \E cell \in RandCells, t \in 1..Len(INTERACTIVE_ITEMS) :
          LET S == Startup(INTERACTIVE_ITEMS, cell, t, << >>, NoCkpt)
          IN  /\ room = S.room
              /\ clients = S.clients
              /\ log = S.log
              /\ log_length = S.log_length
              /\ ckpt = S.ckpt
              /\ connections = S.connections
              /\ errors = S.errors
              /\ shared = SharedOf(cell, t, NoCkpt)
    /\ tmpl = INTERACTIVE_ITEMS
    /\ socket_id_map = NoMap
    /\ conns = {}
    /\ served = {}
    /\ can_shutdown = FALSE
    /\ pc = "poll"
    /\ cur = NoCmd
    /\ ret = NoRet
    /\ ip = 0
    /\ boots = 0
    /\ frames = 0
    /\ need_to_broadcast = FALSE
    /\ timer = 0
    /\ server_map = {room_id}
    /\ futures = (room_id :> "running")
    /\ shutdown_msg = FALSE
    /\ cl_pc = "serve"
    /\ addr_given = AddrOf(0)
    /\ other = 0
    /\ pool = 0
    /\ cl_can_shutdown = FALSE
    /\ cl_timer = 0
    /\ cl_conns = 0
    /\ client_dir = NoMap
    /\ quiet = TRUE
    /\ seen = 0
    /\ died = "never"
    /\ emptied_now = {}
    /\ mutated_now = FALSE
    /\ error_responses = 0
    /\ last_frame = 0
    /\ idle_for = 0

\* No message is being received.
Init ==
    /\ RoomInit
    /\ chunks = << >>
    /\ data = << >>
    /\ out = NoOut
    /\ payload = << >>

(***************************************************************************)
(* run_server: one poll round handles each ready socket once, then clears  *)
(* the markers and broadcasts.                                             *)
(***************************************************************************)
\* Lines 539-540: the test at the top of the loop.
ShutdownDue == can_shutdown /\ timer > shutdown_timeout

\* run_server of the cluster, lines 594-596 and 627-629: a connection
\* accepted or a request answered clears the shutdown timer.
ClearClTimer ==
    /\ cl_can_shutdown' = FALSE
    /\ cl_timer' = 0

\* run_server of the cluster, lines 539-541: the test at the top of its loop.
ClShutdownDue == cl_can_shutdown /\ cl_timer > shutdown_timeout

\* The loop is about to poll, or inside a round.
InLoop == (pc = "poll" /\ ~ShutdownDue) \/ pc = "round"

\* A socket poll() can report in the current round.
Ready(s) == pc = "poll" \/ s \notin served

Serve(s) == IF pc = "poll" THEN {s} ELSE served \cup {s}

\* Nothing is connected and nothing will come.
Idle == conns = {} /\ ip = Len(plan.ev)

\* One more poll interval of idleness.
IdleMore ==
    IF Idle /\ idle_for >= 1 /\ idle_for < IdleCap THEN idle_for + 1
                                                  ELSE idle_for

\* Lines 566-576: poll() times out after its interval, and the timer is
\* started (again).
PollTimeout ==
    /\ pc = "poll"
    /\ ~ShutdownDue
    /\ can_shutdown' = TRUE
    /\ timer' = 0
    /\ idle_for' = IdleMore
    /\ UNCHANGED << room, clients, log, log_length, ckpt, connections,
                    socket_id_map, conns, served, pc, cur, ret, plan, ip,
                    boots, need_to_broadcast >>
    /\ UNCHANGED << hist, stats, process, cluster >>
    /\ UNCHANGED << addr_given, other, framing, coord, since >>

\* With no connection left, a poll interval passes before the loop comes
\* back to its top (the thread is not scheduled for that long).
Stall ==
    /\ pc = "poll"
    /\ can_shutdown
    /\ conns = {}
    /\ timer <= shutdown_timeout
    /\ timer' = timer + 1
    /\ idle_for' = IdleMore
    /\ UNCHANGED << room, clients, log, log_length, ckpt, connections,
                    socket_id_map, conns, served, can_shutdown, pc, cur,
                    ret, plan, ip, boots, need_to_broadcast >>
    /\ UNCHANGED << hist, stats, process, cluster >>
    /\ UNCHANGED << addr_given, other, framing, coord, since >>

\* Lines 587-596: the listening socket is ready; the client behind the
\* next event connects.  Its socket is polled from the next round on.
Accept(s) ==
    /\ InLoop
    /\ Ready("listen")
    /\ s \notin conns
    /\ ip < Len(plan.ev)
    /\ plan.ev[ip + 1].s = s
    /\ conns' = conns \cup {s}
    /\ served' = Serve("listen") \cup {s}
    /\ can_shutdown' = FALSE
    /\ timer' = 0
    /\ idle_for' = 0
    /\ pc' = "round"
    /\ UNCHANGED << room, clients, log, log_length, ckpt, connections,
                    socket_id_map, cur, ret, plan, ip, boots,
                    need_to_broadcast >>
    /\ UNCHANGED << hist, stats, process, cluster >>
    /\ UNCHANGED << addr_given, other, framing, coord, since >>

\* _listen_to_client, lines 449-459, once _parse_command has returned r
\* (counting it when it is an error, lines 398-403): the socket is mapped
\* to the client and the response sent; run_server clears the shutdown
\* timer (lines 627-629).
Finish(s, client, r) ==
    /\ socket_id_map' = (s :> client) @@ socket_id_map
    /\ errors' = CountError(errors, r)
    /\ error_responses' = CountError(error_responses, r)
    /\ can_shutdown' = FALSE
    /\ timer' = 0
    /\ pc' = "round"

\* run_server is over, however it ended.
Halt ==
    /\ pc' = "down"
    /\ died' = pc
    /\ emptied_now' = {}
    /\ mutated_now' = FALSE
    /\ connections' = NoMap
    /\ socket_id_map' = NoMap
    /\ conns' = {}
    /\ served' = {}
    /\ can_shutdown' = FALSE
    /\ timer' = 0
    /\ need_to_broadcast' = FALSE
    /\ idle_for' = 0

\* An exception nothing catches ends run_server; the cluster goes on, the
\* room's future holding the exception.
Die ==
    /\ Halt
    /\ futures' = [futures EXCEPT ![room_id] = "failed"]
    /\ UNCHANGED << server_map, shutdown_msg, cl_pc, process >>

\* The cells whose item had uses left in rm and has none in rm2.
Emptied(rm, rm2) == { p \in DOMAIN rm : rm[p].uses > 0 /\ rm2[p].uses = 0 }

\* _listen_to_client and _parse_command, lines 366-387: a request is read
\* from a ready socket and the engine's handler called.  An exception of
\* the handler is caught nowhere and ends run_server.
Dispatch(s) ==
    /\ InLoop
    /\ Ready(s)
    /\ s \in conns
    /\ ip < Len(plan.ev)
    /\ plan.ev[ip + 1].s = s
    /\ plan.ev[ip + 1].m \notin NotRequests
    /\ LET cmd == Request(plan.ev[ip + 1])
           r   == CallEngine(Eng(room, clients), cmd, Values(socket_id_map))
       IN  /\ cur' = cmd
           /\ ip' = ip + 1
           /\ IF cmd.method \notin command_map
              THEN /\ ret' = UnknownMethod
                   /\ connections' = Bind(connections, cmd)
                   /\ served' = Serve(s)
                   /\ need_to_broadcast' = TRUE
                   /\ Finish(s, cmd.client, UnknownMethod)
                   /\ UNCHANGED << room, clients, conns, hist, idle_for,
                                   process, cluster >>
              ELSE IF r.ret.kind = "raise"
              THEN /\ ret' = r.ret
                   /\ Die
                   /\ UNCHANGED << room, clients, errors, error_responses >>
              ELSE /\ ret' = r.ret
                   /\ room' = r.room
                   /\ clients' = r.clients
                   /\ tmpl' = TmplAfter(tmpl, shared, r.room)
                   /\ connections' = Bind(connections, cmd)
                   /\ served' = Serve(s)
                   /\ need_to_broadcast' = TRUE
                   /\ emptied_now' = emptied_now \cup Emptied(room, r.room)
                   /\ mutated_now' = (mutated_now \/ Mutating(cmd, r.ret))
                   /\ pc' = "applied"
                   /\ UNCHANGED << socket_id_map, conns, can_shutdown, timer,
                                   died, idle_for, errors, error_responses,
                                   shared, cluster >>
    /\ UNCHANGED << log, log_length, ckpt, plan, boots, frames, last_frame >>
    /\ UNCHANGED << addr_given, other, framing, coord, seen >>
    /\ quiet' = FALSE

\* _listen_to_client, lines 434-446 and 366-368: a body that is no JSON is
\* answered without _parse_command being called; a JSON object without
\* method and client is answered by _parse_command, which counts the error.
\* Neither maps the socket to a client.
BadRequest(s) ==
    /\ InLoop
    /\ Ready(s)
    /\ s \in conns
    /\ ip < Len(plan.ev)
    /\ plan.ev[ip + 1].s = s
    /\ plan.ev[ip + 1].m \in {"garbage", "malformed"}
    /\ cur' = Request(plan.ev[ip + 1])
    /\ ip' = ip + 1
    /\ IF plan.ev[ip + 1].m = "garbage"
       THEN /\ ret' = NotJson
            /\ errors' = errors
            /\ error_responses' = error_responses + 1
       ELSE /\ ret' = Malformed
            /\ errors' = CountError(errors, Malformed)
            /\ error_responses' = error_responses + 1
    /\ served' = Serve(s)
    /\ need_to_broadcast' = TRUE
    /\ can_shutdown' = FALSE
    /\ timer' = 0
    /\ pc' = "round"
    /\ UNCHANGED << room, clients, log, log_length, ckpt, connections,
                    socket_id_map, conns, plan, boots, frames, last_frame,
                    idle_for >>
    /\ UNCHANGED << hist, process, cluster >>
    /\ UNCHANGED << addr_given, other, framing, coord, seen >>
    /\ quiet' = FALSE

\* _recv_all, lines 341-345: the bytes that made the socket ready do not
\* end with a terminator, so they join the buffer and sock.recv is called
\* again; the socket has no timeout, and the call waits for the next bytes.
recv_blocks(s) ==
    /\ InLoop
    /\ Ready(s)
    /\ s \in conns
    /\ ip < Len(plan.ev)
    /\ plan.ev[ip + 1] = Ev(s, "partial")
    /\ cur' = Request(plan.ev[ip + 1])
    /\ ip' = ip + 1
    /\ served' = Serve(s)
    /\ need_to_broadcast' = TRUE
    /\ pc' = "recv"
    /\ UNCHANGED << room, clients, log, log_length, ckpt, connections,
                    socket_id_map, conns, can_shutdown, ret, plan, boots,
                    timer, idle_for >>
    /\ UNCHANGED << hist, stats, process, cluster >>
    /\ UNCHANGED << addr_given, other, framing, coord, seen >>
    /\ quiet' = FALSE

\* _recv_all, lines 341 and 346-347, and _listen_to_client, lines 434-441:
\* the peer closes, the waiting sock.recv returns no bytes, the buffer is
\* returned, and being no JSON it is answered with an error.  The socket
\* stays registered until a later round reads its end.
recv_ends ==
    /\ pc = "recv"
    /\ ip < Len(plan.ev)
    /\ plan.ev[ip + 1] = Ev(cur.sock, "close")
    /\ ret' = NotJson
    /\ error_responses' = error_responses + 1
    /\ can_shutdown' = FALSE
    /\ timer' = 0
    /\ pc' = "round"
    /\ UNCHANGED << room, clients, log, log_length, ckpt, connections,
                    socket_id_map, conns, served, cur, plan, ip, boots,
                    errors, frames, last_frame, need_to_broadcast,
                    idle_for >>
    /\ UNCHANGED << hist, process, cluster >>
    /\ UNCHANGED << addr_given, other, framing, coord, since >>

\* Lines 599-625: a connection has ended (or a read or send on it failed):
\* _listen_to_client returns False and run_server removes the socket.
\* self.socket_id_map[sock] raises KeyError for a socket that was never
\* mapped, self.connections.pop(...) for a client without an entry.
Disconnect(s) ==
    /\ InLoop
    /\ Ready(s)
    /\ s \in conns
    /\ ip < Len(plan.ev)
    /\ plan.ev[ip + 1] = Ev(s, "close")
    /\ ip' = ip + 1
    /\ IF \/ s \notin DOMAIN socket_id_map
          \/ socket_id_map[s] \notin DOMAIN connections
       THEN Die
       ELSE /\ connections' = Pop(connections, socket_id_map[s])
            /\ socket_id_map' = Pop(socket_id_map, s)
            /\ conns' = conns \ {s}
            /\ served' = Serve(s)
            /\ need_to_broadcast' = TRUE
            /\ IF conns \ {s} = {}
               THEN can_shutdown' = TRUE /\ timer' = 0
               ELSE UNCHANGED << can_shutdown, timer >>
            /\ idle_for' = IF conns \ {s} = {} THEN 1 ELSE 0
            /\ pc' = "round"
            /\ UNCHANGED << hist, process, cluster >>
    /\ UNCHANGED << room, clients, log, log_length, ckpt, cur, ret, plan,
                    boots, stats >>
    /\ UNCHANGED << addr_given, other, framing, coord, since >>

\* _parse_command, lines 389-397: the command is written to the log
\* (write, flush, fsync) and counted; past the limit a checkpoint follows.
LogAppend ==
    /\ pc = "applied"
    /\ IF ShouldLog(cur, ret, FALSE)
       THEN /\ log' = AppendLine(log, LogLine(cur))
            /\ log_length' = log_length + 1
            /\ IF log_length + 1 > CkptLimit
               THEN /\ pc' = "ckpt"
                    /\ UNCHANGED << socket_id_map, can_shutdown, timer,
                                    errors, error_responses >>
               ELSE Finish(cur.sock, cur.client, ret)
       ELSE /\ Finish(cur.sock, cur.client, ret)
            /\ UNCHANGED << log, log_length >>
    /\ UNCHANGED << room, clients, ckpt, connections, conns, served, cur,
                    ret, plan, ip, boots, frames, last_frame,
                    need_to_broadcast, idle_for >>
    /\ UNCHANGED << hist, process, cluster >>
    /\ UNCHANGED << addr_given, other, framing, coord, since >>

\* _update_ckpt, lines 313-319: the checkpoint is written and renamed.
update_ckpt ==
    /\ pc = "ckpt"
    /\ ckpt' = CkptOf(Eng(room, clients))
    /\ pc' = "trunc"
    /\ UNCHANGED << room, clients, log, log_length, connections,
                    socket_id_map, conns, served, can_shutdown, cur, ret,
                    plan, ip, boots, need_to_broadcast, timer, idle_for >>
    /\ UNCHANGED << hist, stats, process, cluster >>
    /\ UNCHANGED << addr_given, other, framing, coord, since >>

\* _truncate_log, then the return of _parse_command.
truncate_log ==
    /\ pc = "trunc"
    /\ log' = << >>
    /\ log_length' = 0
    /\ Finish(cur.sock, cur.client, ret)
    /\ UNCHANGED << room, clients, ckpt, connections, conns, served, cur,
                    ret, plan, ip, boots, frames, last_frame,
                    need_to_broadcast, idle_for >>
    /\ UNCHANGED << hist, process, cluster >>
    /\ UNCHANGED << addr_given, other, framing, coord, since >>

\* A frame counter that stands still.
SameFrame(f) == f

\* The frame of the next snapshot (self.frames += 1).
NextFrame(f) == f + 1

\* _broadcast_current_room_state gets as far as sending: the positions of
\* the connected clients can be looked up (a KeyError is caught and the
\* snapshot dropped) and there is an address to send to.
SnapshotGoesOut ==
    /\ Values(socket_id_map) \subseteq DOMAIN clients
    /\ DOMAIN connections # {}

\* Lines 637-645: the round ends: the markers are cleared, and when a
\* client socket was handled in the round the room state is broadcast.
EndRound ==
    /\ pc = "round"
    /\ room' = clear_empty_markers(room)
    /\ tmpl' = TmplAfter(tmpl, shared, clear_empty_markers(room))
    /\ IF broadcast_with_udp /\ need_to_broadcast
       THEN /\ frames' = NextFrame(frames)
            /\ last_frame' = IF SnapshotGoesOut THEN NextFrame(frames)
                                                ELSE last_frame
            /\ seen' = IF SnapshotGoesOut /\ NextFrame(frames) > seen
                       THEN NextFrame(frames)
                       ELSE seen
       ELSE UNCHANGED << frames, last_frame, seen >>
    /\ need_to_broadcast' = FALSE
    /\ served' = {}
    /\ emptied_now' = {}
    /\ mutated_now' = FALSE
    /\ pc' = "poll"
    /\ UNCHANGED << clients, log, log_length, ckpt, connections,
                    socket_id_map, conns, can_shutdown, cur, ret, plan, ip,
                    boots, died, timer, idle_for, errors, error_responses,
                    shared, cluster >>
    /\ UNCHANGED << addr_given, other, framing, coord, quiet >>

\* Lines 539-543 and _send_shutdown_message: the timer has run out; the
\* room connects to the cluster and sends shutdown_room with its id.
send_shutdown_message ==
    /\ pc = "poll"
    /\ ShutdownDue
    /\ cl_pc # "returned"
    /\ shutdown_msg' = TRUE
    /\ pc' = "closing"
    /\ UNCHANGED << room, clients, log, log_length, ckpt, connections,
                    socket_id_map, conns, served, can_shutdown, cur, ret,
                    plan, ip, boots, need_to_broadcast, timer, idle_for,
                    server_map, futures, cl_pc >>
    /\ UNCHANGED << hist, stats, process >>
    /\ UNCHANGED << addr_given, other, framing, coord, since >>

\* _send_shutdown_message, line 213, once the cluster's run_server has
\* ended: the cluster has closed its listening socket (after an exception
\* the socket may outlive the loop, then the message is sent and never
\* read), connect() raises and the exception ends the room's run_server.
send_shutdown_refused ==
    /\ pc = "poll"
    /\ ShutdownDue
    /\ cl_pc \in {"returned", "dead"}
    /\ Die
    /\ UNCHANGED << room, clients, log, log_length, ckpt, cur, ret, plan,
                    ip, boots, stats >>
    /\ UNCHANGED << addr_given, other, framing, coord, since >>

\* Lines 544-550: the listening socket and the log file are closed and
\* run_server returns, which completes the room's future.
Return ==
    /\ pc = "closing"
    /\ AwaitsReply => room_id \notin server_map
    /\ pc' = "returned"
    /\ futures' = [futures EXCEPT ![room_id] = "done"]
    /\ connections' = NoMap
    /\ socket_id_map' = NoMap
    /\ conns' = {}
    /\ served' = {}
    /\ can_shutdown' = FALSE
    /\ timer' = 0
    /\ UNCHANGED << room, clients, log, log_length, ckpt, cur, ret, plan,
                    ip, boots, need_to_broadcast, idle_for, server_map,
                    shutdown_msg, cl_pc >>
    /\ UNCHANGED << hist, stats, process >>
    /\ UNCHANGED << addr_given, other, framing, coord, since >>

\* Cluster.shutdown_room, lines 109-122: the cluster reads the room's
\* message and waits for the room's future.
shutdown_room_wait ==
    /\ cl_pc = "serve"
    /\ shutdown_msg
    /\ shutdown_msg' = FALSE
    /\ cl_pc' = "wait"
    /\ UNCHANGED << room, clients, log, log_length, ckpt, connections,
                    socket_id_map, conns, served, can_shutdown, pc, cur,
                    ret, plan, ip, boots, need_to_broadcast, timer,
                    idle_for, server_map, futures >>
    /\ UNCHANGED << hist, stats, process >>
    /\ UNCHANGED << addr_given, other, framing, pool, cl_conns, client_dir,
                    since >>
    /\ ClearClTimer

\* Cluster.shutdown_room called by a client of the cluster: the same
\* wait, whatever the room is doing.
shutdown_room_request ==
    /\ cl_pc = "serve"
    /\ pc # "down"
    /\ ip < Len(plan.ev)
    /\ plan.ev[ip + 1] = Ev("ops", "shutdown_room")
    /\ ip' = ip + 1
    /\ cl_pc' = "wait"
    /\ UNCHANGED << room, clients, log, log_length, ckpt, connections,
                    socket_id_map, conns, served, can_shutdown, pc, cur,
                    ret, plan, boots, need_to_broadcast, timer,
                    idle_for, server_map, futures, shutdown_msg >>
    /\ UNCHANGED << hist, stats, process >>
    /\ UNCHANGED << addr_given, other, framing, pool, cl_conns, client_dir,
                    since >>
    /\ ClearClTimer

\* Cluster.shutdown_room, lines 122-132: result() has returned; the room
\* is deleted from the directory.
shutdown_room ==
    /\ cl_pc = "wait"
    /\ Completed(futures[room_id])
    /\ server_map' = server_map \ {room_id}
    /\ cl_pc' = "serve"
    /\ UNCHANGED << room, clients, log, log_length, ckpt, connections,
                    socket_id_map, conns, served, can_shutdown, pc, cur,
                    ret, plan, ip, boots, need_to_broadcast, timer,
                    idle_for, futures, shutdown_msg >>
    /\ UNCHANGED << hist, stats, process >>
    /\ addr_given' = 0
    /\ UNCHANGED << other, framing, coord, since >>

\* The operator kills the process (the cluster with its rooms).  The files
\* stay; room and clients keep what the engine held when it died, until
\* the next start replaces them.
Crash ==
    /\ pc # "down"
    /\ ip \in plan.kills
    /\ boots < MaxBoots
    /\ Halt
    /\ server_map' = {}
    /\ futures' = (room_id :> "none")
    /\ shutdown_msg' = FALSE
    /\ cl_pc' = "serve"
    /\ UNCHANGED << room, clients, log, log_length, ckpt, cur, ret, plan,
                    ip, boots, stats, process >>
    /\ addr_given' = 0
    /\ other' = 0
    /\ pool' = 0
    /\ cl_can_shutdown' = FALSE
    /\ cl_timer' = 0
    /\ cl_conns' = 0
    /\ client_dir' = NoMap
    /\ UNCHANGED << framing, since >>

\* run_server of the cluster, lines 587-596: a client connects.
cl_accept ==
    /\ cl_pc = "serve"
    /\ pc # "down"
    /\ ip < Len(plan.ev)
    /\ plan.ev[ip + 1] = Ev("ops", "connect")
    /\ ip' = ip + 1
    /\ cl_conns' = cl_conns + 1
    /\ ClearClTimer
    /\ UNCHANGED << room, clients, log, log_length, ckpt, connections,
                    socket_id_map, conns, served, can_shutdown, pc, cur,
                    ret, plan, boots, need_to_broadcast, timer, idle_for,
                    addr_given, other, framing, pool, client_dir, since >>
    /\ UNCHANGED << hist, stats, process, cluster >>

\* run_server of the cluster, lines 566-576: its poll() times out, and
\* the timer is started whatever the engine is.
cl_poll_timeout ==
    /\ cl_pc = "serve"
    /\ ~ClShutdownDue
    /\ pc # "down"
    /\ ip < Len(plan.ev)
    /\ plan.ev[ip + 1] = Ev("ops", "timeout")
    /\ ip' = ip + 1
    /\ cl_can_shutdown' = TRUE
    /\ cl_timer' = 0
    /\ UNCHANGED << room, clients, log, log_length, ckpt, connections,
                    socket_id_map, conns, served, can_shutdown, pc, cur,
                    ret, plan, boots, need_to_broadcast, timer, idle_for,
                    addr_given, other, framing, pool, cl_conns, client_dir,
                    since >>
    /\ UNCHANGED << hist, stats, process, cluster >>

\* run_server of the cluster, lines 599-625: a client of the cluster has
\* closed its connection, just under a poll interval after the round
\* before.  The socket is dropped; the timer is neither started (line 622
\* asks for a Game) nor cleared, and goes on running if it was started.
cl_disconnect ==
    /\ cl_pc = "serve"
    /\ ~ClShutdownDue
    /\ pc # "down"
    /\ cl_conns > 0
    /\ ip < Len(plan.ev)
    /\ plan.ev[ip + 1] = Ev("ops", "close")
    /\ ip' = ip + 1
    /\ cl_conns' = cl_conns - 1
    /\ cl_timer' = IF cl_can_shutdown THEN cl_timer + 1 ELSE cl_timer
    /\ UNCHANGED << room, clients, log, log_length, ckpt, connections,
                    socket_id_map, conns, served, can_shutdown, pc, cur,
                    ret, plan, boots, need_to_broadcast, timer, idle_for,
                    addr_given, other, framing, pool, cl_can_shutdown,
                    client_dir, since >>
    /\ UNCHANGED << hist, stats, process, cluster >>

\* run_server of the cluster, lines 539-551: the timer has run out.
\* _send_shutdown_message connects to the cluster's own nameserver (the
\* catalog, ServerCluster.py:183-188) and sends shutdown_room; the
\* listening socket is closed and run_server returns, or the connection
\* fails and the exception ends run_server.
cl_shutdown ==
    /\ cl_pc = "serve"
    /\ ClShutdownDue
    /\ pc # "down"
    /\ \E connected \in BOOLEAN :
          cl_pc' = IF connected THEN "returned" ELSE "dead"
    /\ UNCHANGED << room, clients, log, log_length, ckpt, connections,
                    socket_id_map, conns, served, can_shutdown, pc, cur,
                    ret, plan, ip, boots, need_to_broadcast, timer,
                    idle_for, server_map, futures, shutdown_msg,
                    addr_given, other, framing, coord, since >>
    /\ UNCHANGED << hist, stats, process >>

\* Cluster.shutdown_room, line 118, for an id that is no key of
\* self.futures: the lookup raises KeyError ahead of the try of lines
\* 126-130; _parse_command, _listen_to_client and run_server catch
\* nothing, so no response is sent and the cluster's loop ends.  The rooms
\* submitted to the executor go on running.
shutdown_room_unknown ==
    /\ cl_pc = "serve"
    /\ pc # "down"
    /\ ip < Len(plan.ev)
    /\ plan.ev[ip + 1] = Ev("ops", "shutdown_room_unknown")
    /\ ip' = ip + 1
    /\ cl_pc' = "dead"
    /\ UNCHANGED << room, clients, log, log_length, ckpt, connections,
                    socket_id_map, conns, served, can_shutdown, pc, cur,
                    ret, plan, boots, need_to_broadcast, timer, idle_for,
                    server_map, futures, shutdown_msg, addr_given, other,
                    framing, coord, since >>
    /\ UNCHANGED << hist, stats, process >>

\* A directory that records a room the client came from.
RegisteredInRoom(dir, c) == (c :> 1) @@ dir

\* Cluster.register_new_client, lines 138-145: self._clients after the
\* call; a client that is not in it is put into room 0.
Registered(dir, c) == IF c \in DOMAIN dir THEN dir ELSE (c :> 0) @@ dir

\* Cluster.register_new_client, lines 138-147: the response.
register_reply(dir, c) ==
    [client_id |-> c,
     last_room |-> IF c \in DOMAIN dir THEN dir[c] ELSE 0]

\* Cluster.register_new_client for one of the clients, answered by the
\* cluster's run_server.
register_new_client ==
    /\ cl_pc = "serve"
    /\ pc # "down"
    /\ ip < Len(plan.ev)
    /\ plan.ev[ip + 1] = Ev("ops", "register_new_client")
    /\ ip' = ip + 1
    /\ \E c \in {IdA, Id1} : client_dir' = Registered(client_dir, c)
    /\ ClearClTimer
    /\ UNCHANGED << room, clients, log, log_length, ckpt, connections,
                    socket_id_map, conns, served, can_shutdown, pc, cur,
                    ret, plan, boots, need_to_broadcast, timer, idle_for,
                    addr_given, other, framing, pool, cl_conns, since >>
    /\ UNCHANGED << hist, stats, process, cluster >>

\* The workers that are running a room.
Busy == pool + (IF futures[room_id] = "running" THEN 1 ELSE 0)

\* A new GameServer for the room, built on the files on disk from the
\* templates tm, and submitted to the executor, which calls run_server
\* when it has a worker for it.
Spawn(tm) ==
    /\ \E cell \in RandCells, t \in 1..Len(INTERACTIVE_ITEMS) :
          LET S  == Startup(tm, cell, t, log, ckpt)
              sh == SharedOf(cell, t, ckpt)
          IN  /\ room' = S.room
              /\ clients' = S.clients
              /\ log' = S.log
              /\ log_length' = S.log_length
              /\ ckpt' = S.ckpt
              /\ connections' = S.connections
              /\ errors' = S.errors
              /\ shared' = sh
              /\ tmpl' = TmplAfter(tm, sh, S.room)
    /\ frames' = 0
    /\ error_responses' = 0
    /\ last_frame' = 0
    /\ idle_for' = 0
    /\ boots' = boots + 1
    /\ pc' = IF pool < max_workers THEN "poll" ELSE "queued"
    /\ server_map' = server_map \cup {room_id}
    /\ futures' = [futures EXCEPT ![room_id] =
                       IF pool < max_workers THEN "running" ELSE "queued"]
    /\ UNCHANGED << socket_id_map, conns, served, can_shutdown, cur, ret,
                    plan, ip, need_to_broadcast, timer, shutdown_msg >>
    /\ UNCHANGED hist

\* GameServer.__init__ raises out of Cluster.get_room_server (line 91):
\* no room server is stored or submitted and no address is returned.
FailedStart ==
    /\ boots' = boots + 1
    /\ addr_given' = 0
    /\ UNCHANGED << room, clients, log, log_length, ckpt, connections,
                    socket_id_map, conns, served, can_shutdown, pc, cur,
                    ret, plan, ip, need_to_broadcast, timer, idle_for,
                    other, framing, coord, since >>
    /\ UNCHANGED << hist, stats, process, cluster >>

\* The checkpoint file is damaged while no process runs.
Damage ==
    /\ pc = "down"
    /\ ip < Len(plan.ev)
    /\ plan.ev[ip + 1] = Ev("disk", "damage")
    /\ ip' = ip + 1
    /\ \E f \in CkptForms : ckpt' = Damaged(f)
    /\ UNCHANGED << room, clients, log, log_length, connections,
                    socket_id_map, conns, served, can_shutdown, pc, cur,
                    ret, plan, boots, need_to_broadcast, timer, idle_for,
                    addr_given, other, framing, coord, since >>
    /\ UNCHANGED << hist, stats, process, cluster >>

\* The process is started again and a client asks for the room: the
\* templates are those of the source.
Restart ==
    /\ pc = "down"
    /\ boots < MaxBoots
    /\ IF StartFails(ckpt)
       THEN FailedStart
       ELSE /\ Spawn(INTERACTIVE_ITEMS)
            /\ addr_given' = AddrOf(boots + 1)
            /\ cl_pc' = "serve"
            /\ quiet' = TRUE
            /\ UNCHANGED << other, framing, coord, seen >>

\* Cluster.get_room_server for a room id that is not in the directory: a
\* new room server in the running process, whose templates are as the
\* rooms before left them.
get_room_server ==
    /\ ~Known(room_id, server_map)
    /\ pc = "returned"
    /\ cl_pc = "serve"
    /\ boots < MaxBoots
    /\ IF StartFails(ckpt)
       THEN FailedStart
       ELSE /\ Spawn(tmpl)
            /\ addr_given' = AddrOf(boots + 1)
            /\ quiet' = TRUE
            /\ UNCHANGED cl_pc
            /\ ClearClTimer
            /\ UNCHANGED << other, framing, pool, cl_conns, client_dir,
                            seen >>

\* A worker of the executor is free and takes the room's run_server from
\* the queue.
Start ==
    /\ pc = "queued"
    /\ pool < max_workers
    /\ pc' = "poll"
    /\ futures' = [futures EXCEPT ![room_id] = "running"]
    /\ UNCHANGED << room, clients, log, log_length, ckpt, connections,
                    socket_id_map, conns, served, can_shutdown, cur, ret,
                    plan, ip, boots, need_to_broadcast, timer, idle_for,
                    server_map, shutdown_msg, cl_pc, addr_given, other,
                    framing, coord, since >>
    /\ UNCHANGED << hist, stats, process >>

\* Cluster.get_room_server for the ids of further rooms, each submitted to
\* the executor while it has a worker left.
other_more ==
    /\ cl_pc = "serve"
    /\ pc # "down"
    /\ ip < Len(plan.ev)
    /\ plan.ev[ip + 1] = Ev("ops", "get_room_server_more")
    /\ Busy < max_workers
    /\ ip' = ip + 1
    /\ pool' = pool + 1
    /\ UNCHANGED << room, clients, log, log_length, ckpt, connections,
                    socket_id_map, conns, served, can_shutdown, pc, cur,
                    ret, plan, boots, need_to_broadcast, timer, idle_for,
                    addr_given, other, framing, cl_conns, client_dir, since >>
    /\ ClearClTimer
    /\ UNCHANGED << hist, stats, process, cluster >>

\* run_server of one of the other rooms returns or raises.
other_done ==
    /\ pc # "down"
    /\ ip < Len(plan.ev)
    /\ plan.ev[ip + 1] = Ev("r3", "return")
    /\ ip' = ip + 1
    /\ pool' = IF pool > 0 THEN pool - 1 ELSE pool
    /\ UNCHANGED << room, clients, log, log_length, ckpt, connections,
                    socket_id_map, conns, served, can_shutdown, pc, cur,
                    ret, plan, boots, need_to_broadcast, timer, idle_for,
                    addr_given, other, framing, cl_loop, client_dir, since >>
    /\ UNCHANGED << hist, stats, process, cluster >>

\* The room's items when the dict of template t has become it.
Aliased(rm, t, it) ==
    IF t # 0 /\ shared.t = t THEN [rm EXCEPT ![shared.cell] = it] ELSE rm

\* Cluster.get_room_server for the id of a second room: Game.__init__
\* draws its item from the templates of the process (the draw of the cell
\* may fall on '1:1', where the chest of the dict literal replaces it).
other_spawn ==
    /\ cl_pc = "serve"
    /\ pc # "down"
    /\ ip < Len(plan.ev)
    /\ plan.ev[ip + 1] = Ev("ops", "get_room_server_2")
    /\ Busy < max_workers
    /\ ip' = ip + 1
    /\ pool' = pool + 1
    /\ \E cell \in RandCells, t \in 1..Len(INTERACTIVE_ITEMS) :
          other' = SharedOf(cell, t, NoCkpt).t
    /\ server_map' = server_map \cup {room_id2}
    /\ UNCHANGED << room, clients, log, log_length, ckpt, connections,
                    socket_id_map, conns, served, can_shutdown, pc, cur,
                    ret, plan, boots, need_to_broadcast, timer, idle_for,
                    futures, shutdown_msg, cl_pc, addr_given, framing,
                    cl_conns, client_dir, since >>
    /\ ClearClTimer
    /\ UNCHANGED << hist, stats, process >>

\* Game.interact in the second room, of a client standing on its item.
other_interact ==
    /\ pc # "down"
    /\ ip < Len(plan.ev)
    /\ plan.ev[ip + 1] = Ev("r2", "interact")
    /\ ip' = ip + 1
    /\ IF other = 0
       THEN UNCHANGED << room, tmpl >>
       ELSE LET it == IF tmpl[other].emptied_this_round \/ tmpl[other].uses = 0
                      THEN tmpl[other]
                      ELSE UseItem(tmpl[other])
            IN  /\ tmpl' = [tmpl EXCEPT ![other] = it]
                /\ room' = Aliased(room, other, it)
    /\ UNCHANGED << clients, log, log_length, ckpt, connections,
                    socket_id_map, conns, served, can_shutdown, pc, cur,
                    ret, plan, boots, need_to_broadcast, timer, idle_for,
                    shared, addr_given, other, framing, coord, since >>
    /\ UNCHANGED << hist, stats, cluster >>

\* Game.clear_empty_markers at the end of a round of the second room.
other_clear ==
    /\ pc # "down"
    /\ ip < Len(plan.ev)
    /\ plan.ev[ip + 1] = Ev("r2", "round")
    /\ ip' = ip + 1
    /\ IF other = 0
       THEN UNCHANGED << room, tmpl >>
       ELSE LET it == [tmpl[other] EXCEPT !.emptied_this_round = FALSE]
            IN  /\ tmpl' = [tmpl EXCEPT ![other] = it]
                /\ room' = Aliased(room, other, it)
    /\ UNCHANGED << clients, log, log_length, ckpt, connections,
                    socket_id_map, conns, served, can_shutdown, pc, cur,
                    ret, plan, boots, need_to_broadcast, timer, idle_for,
                    shared, addr_given, other, framing, coord, since >>
    /\ UNCHANGED << hist, stats, cluster >>

\* Cluster.get_room_server, lines 84-85, for a room id that is in the
\* directory: the address of the server entered there is returned, whatever
\* has become of the server.
get_room_server_known ==
    /\ cl_pc = "serve"
    /\ Known(room_id, server_map)
    /\ ip < Len(plan.ev)
    /\ plan.ev[ip + 1] = Ev("ops", "get_room_server")
    /\ ip' = ip + 1
    /\ addr_given' = AddrOf(boots)
    /\ UNCHANGED << room, clients, log, log_length, ckpt, connections,
                    socket_id_map, conns, served, can_shutdown, pc, cur,
                    ret, plan, boots, need_to_broadcast, timer, idle_for,
                    other, framing, pool, cl_conns, client_dir, since >>
    /\ ClearClTimer
    /\ UNCHANGED << hist, stats, process, cluster >>

Next ==
    \/ PollTimeout
    \/ Stall
    \/ \E s \in Socks : Accept(s)
    \/ \E s \in Socks : Dispatch(s)
    \/ \E s \in Socks : BadRequest(s)
    \/ \E s \in Socks : Disconnect(s)
    \/ \E s \in Socks : recv_blocks(s)
    \/ recv_ends
    \/ LogAppend
    \/ update_ckpt
    \/ truncate_log
    \/ EndRound
    \/ send_shutdown_message
    \/ Return
    \/ shutdown_room_wait
    \/ shutdown_room_request
    \/ shutdown_room
    \/ Crash
    \/ Restart
    \/ get_room_server
    \/ get_room_server_known
    \/ Damage
    \/ Start
    \/ other_more
    \/ other_done
    \/ cl_accept
    \/ cl_poll_timeout
    \/ cl_disconnect
    \/ cl_shutdown
    \/ shutdown_room_unknown
    \/ register_new_client
    \/ send_shutdown_refused
    \/ other_spawn
    \/ other_interact
    \/ other_clear

Spec == Init /\ [][Next]_vars

\* The room's thread keeps running: a read that can return returns, and
\* a round that can end ends.
LoopSpec == Spec /\ WF_vars(recv_ends) /\ WF_vars(EndRound)

(***************************************************************************)
(* _recv_all on one message: the characters of a JSON payload and of a     *)
(* terminator, delivered by the socket in some number of reads.            *)
(***************************************************************************)
\* Line 16, character by character.
END_SEQ ==
    << << "E", "N", "D", "_", "O", "F", "_", "M", "E", "S", "S", "A", "G",
          "E" >>,
       << "A", "L", "T", "_", "T", "E", "R", "M", "I", "N", "A", "T", "I",
          "O", "N" >> >>

\* The most reads one message arrives in.
MaxReads == 3

\* The payloads sent: {} and {"a":1}.
Payloads == { << "{", "}" >>, << "{", "\"", "a", "\"", ":", "1", "}" >> }

\* The ways sock.recv(n) can deliver the characters s in at most k
\* (non-empty) reads.
RECURSIVE Splits(_, _)
Splits(s, k) ==
    IF s = << >> THEN { << >> }
    ELSE IF k = 0 THEN {}
    ELSE UNION { { << SubSeq(s, 1, i) >> \o r :
                     r \in Splits(SubSeq(s, i + 1, Len(s)), k - 1) } :
                 i \in 1..Len(s) }

\* Line 343: new_data[-1 * len(ending):] == ending (the slice of a shorter
\* string is the whole string).
EndsWith(new_data, ending) ==
    /\ Len(new_data) >= Len(ending)
    /\ SubSeq(new_data, Len(new_data) - Len(ending) + 1, Len(new_data)) = ending

\* Lines 342-345: the first ending of END_SEQ the read ends with is cut
\* off and the message returned; else the read joins the buffer.
recv_last_read(buf, new_data) ==
    LET hits == { e \in 1..Len(END_SEQ) : EndsWith(new_data, END_SEQ[e]) }
    IN  IF hits = {} THEN [done |-> FALSE, data |-> buf \o new_data]
        ELSE LET e == CHOOSE h \in hits : \A g \in hits : h <= g
             IN  [done |-> TRUE,
                  data |-> buf \o SubSeq(new_data, 1,
                                         Len(new_data) - Len(END_SEQ[e]))]

FramingInit ==
    /\ RoomInit
    /\ plan = Started(ReturnPlan, TRUE)
    /\ payload \in Payloads
    /\ \E e \in 1..Len(END_SEQ) :
          chunks \in Splits(payload \o END_SEQ[e], MaxReads)
    /\ data = << >>
    /\ out = NoOut

\* One turn of the loop of _recv_all, lines 341-345.
recv ==
    /\ out = NoOut
    /\ chunks # << >>
    /\ LET r == recv_last_read(data, Head(chunks))
       IN  IF r.done
           THEN out' = r.data /\ data' = data
           ELSE data' = r.data /\ out' = out
    /\ chunks' = Tail(chunks)
    /\ UNCHANGED payload
    /\ UNCHANGED << room, clients, log, log_length, ckpt, connections,
                    socket_id_map, conns, served, can_shutdown, pc, cur,
                    ret, plan, ip, boots, need_to_broadcast, timer,
                    idle_for, addr_given, other >>
    /\ UNCHANGED << hist, stats, process, cluster >>
    /\ UNCHANGED << coord, since >>

\* Lines 341 and 346-347: the peer closes, recv returns no bytes, and the
\* buffer is returned as it is.
recv_closed ==
    /\ out = NoOut
    /\ chunks = << >>
    /\ out' = data
    /\ UNCHANGED << chunks, data, payload >>
    /\ UNCHANGED << room, clients, log, log_length, ckpt, connections,
                    socket_id_map, conns, served, can_shutdown, pc, cur,
                    ret, plan, ip, boots, need_to_broadcast, timer,
                    idle_for, addr_given, other >>
    /\ UNCHANGED << hist, stats, process, cluster >>
    /\ UNCHANGED << coord, since >>

FramingNext ==
    \/ recv
    \/ recv_closed

FramingSpec == FramingInit /\ [][FramingNext]_vars

\* The room's thread and the cluster's loop keep running: a step of the
\* shutdown hand-over that stays possible is taken.
FairSpec ==
    /\ Spec
    /\ WF_vars(Return)
    /\ WF_vars(shutdown_room_wait)
    /\ WF_vars(shutdown_room)

(***************************************************************************)
(* The claims.                                                             *)
(***************************************************************************)
InGrid(pos) ==
    /\ pos[1] \in 0..room_dimension
    /\ pos[2] \in 0..room_dimension

\* C1: in every reachable state of a room, whatever add_client, up, down,
\* left, right and interact commands the clients sent, every client's
\* position (x, y) satisfies 0 <= x <= 8 and 0 <= y <= 8.
C1_PositionsInGrid == \A c \in DOMAIN clients : InGrid(clients[c])

\* C1 witness: a client standing at the right wall has pushed against it
\* and was clamped back (the response is 'exit right').
C1_Witness ==
    /\ cur.method = "right"
    /\ ret.kind = "success"
    /\ ret.success = "exit right"
    /\ clients[cur.client] = << room_dimension, 4 >>

\* C2 (as claimed): write-ahead ordering.  Whenever a step changes the
\* engine state (client positions or item uses) for a client's command,
\* the line of that command is already the last line of the log.
C2_WriteAhead ==
    [][ (pc' = "applied" /\ << room', clients' >> # << room, clients >>)
        => (log # << >> /\ log[Len(log)] = LogLine(cur')) ]_vars

\* C3 (as claimed): only engine-mutating commands are appended to the log.
\* A step of a running room that appends a line appends neither a get_room
\* request nor a command the engine answered with an error.
C3_OnlyMutatingLogged ==
    [][ (pc = "applied" /\ Len(log') = Len(log) + 1)
        => (cur.method # "get_room" /\ ret.kind # "error") ]_vars

\* C4 (as claimed): startup replay does not re-log.  When the room starts
\* on an existing log, the log file after startup holds exactly the lines
\* it held before.
C4_ReplayDoesNotRelog ==
    [][ (pc = "down" /\ pc' = "poll") => log' = log ]_vars

\* The commands whose results are not random.
NonRandom == {"add_client", "up", "down", "left", "right", "interact"}

\* C5 (as claimed): log replay determinism.  A room that took no
\* checkpoint, whose logged commands are add_client, moves and interacts,
\* and that was killed between two requests holds, after the restart and
\* its replay, the item map and the client-position map the engine held
\* immediately before the kill.
C5_ReplayDeterminism ==
    [][ ( /\ pc = "down" /\ pc' = "poll"
          /\ died \in {"poll", "round"}
          /\ ~ckpt.exists
          /\ \A i \in 1..Len(log) : log[i].method \in NonRandom )
        => (room' = room /\ clients' = clients) ]_vars

\* C6 (as claimed): checkpoint round trip.  A room killed right after it
\* wrote a checkpoint (the log is truncated, no further command came)
\* holds after the restart an item map and a client-position map equal, in
\* keys and values, to those before the restart.
C6_CkptRoundTrip ==
    [][ ( /\ pc = "down" /\ pc' = "poll"
          /\ died = "round"
          /\ ckpt.exists
          /\ ckpt = CkptOf(Eng(room, clients))
          /\ log = << >> )
        => (room' = room /\ clients' = clients) ]_vars

\* C7 (as claimed): checkpoint trigger.  The lines of the log file are the
\* appends since the last truncation: while a room runs, they never exceed
\* the limit of 100 except during the one checkpoint that the 101st append
\* triggers and that empties the log, and log_length is their number.
C7_CheckpointTrigger ==
    /\ (pc \in {"poll", "round", "applied"} => Len(log) <= CkptLimit)
    /\ (pc \in {"ckpt", "trunc"} => Len(log) = CkptLimit + 1)
    /\ (pc \in {"poll", "round"} => log_length = Len(log))

\* The step is an interact of a client standing on cell p.
InteractOn(p) ==
    /\ ip' = ip + 1
    /\ plan.ev[ip + 1].m = "interact"
    /\ cur'.method = "interact"
    /\ cur'.client \in DOMAIN clients
    /\ clients[cur'.client] = p

UsesNonNegative == \A p \in DOMAIN room : room[p].uses >= 0

\* The step is one of the cluster's second room.
OtherStep == ip' = ip + 1 /\ plan.ev[ip + 1].s = "r2"

C8_Step ==
    pc \notin {"down", "returned"} =>
        /\ DOMAIN room' = DOMAIN room
        /\ \A p \in DOMAIN room :
              IF OtherStep
              THEN room'[p].uses \in {room[p].uses, room[p].uses - 1}
              ELSE room'[p].uses =
                      IF /\ InteractOn(p)
                         /\ room[p].uses > 0
                         /\ ~room[p].emptied_this_round
                      THEN room[p].uses - 1
                      ELSE room[p].uses

\* C8: in every step of a running room, an interact by a client standing
\* on an item takes exactly one use off that item when it has uses left
\* and is not marked emptied_this_round, and every other step (every other
\* interact, every other command, the end of a round) leaves every item's
\* uses as they were; so uses never increase, and they are never negative.
C8_InteractUses == []UsesNonNegative /\ [][C8_Step]_vars

\* C8 witness: an interact has just taken the last use off an item.
C8_Witness ==
    /\ pc = "applied"
    /\ cur.method = "interact"
    /\ ret.kind = "msg"
    /\ ret.msg = "use_message"
    /\ room[clients[cur.client]].uses = 0

\* C9 (as claimed): item depletion ordering.  An interact on an item with
\* uses left returns use_message, and marks the item when it took the last
\* use; an interact on an item without uses returns conflict_message when
\* the item was emptied in the current poll round and empty_message when it
\* was emptied in an earlier one.
C9_DepletionOrdering ==
    [][ \A p \in DOMAIN room :
          (InteractOn(p) /\ pc' = "applied") =>
              IF room[p].uses > 0
              THEN /\ ret'.msg = "use_message"
                   /\ room'[p].emptied_this_round = (room[p].uses = 1)
              ELSE ret'.msg = IF pc = "round" /\ p \in emptied_now
                              THEN "conflict_message"
                              ELSE "empty_message" ]_vars

\* The ordering of C9 as one room alone shows it: in the round in which
\* one client took the last use of an item, a second client interacted
\* with it and got conflict_message.
C9_Witness ==
    /\ pc = "applied"
    /\ cur.method = "interact"
    /\ ret.kind = "msg"
    /\ ret.msg = "conflict_message"
    /\ clients[cur.client] \in emptied_now

\* C10 (as claimed): at the start of every poll round every item's
\* emptied_this_round is false, and while a room runs the flag is true
\* only for items whose uses reached zero during the current round.
C10_MarkersPerRound ==
    pc # "down" =>
        \A p \in DOMAIN room :
            room[p].emptied_this_round => (pc # "poll" /\ p \in emptied_now)

\* The step receives a request of method m from a client that is in the room.
MoveStep(m, c) ==
    /\ ip' = ip + 1
    /\ plan.ev[ip + 1].m = m
    /\ cur'.method = m
    /\ cur'.client = c

\* C11: add_client is idempotent.  An add_client of a client that is not
\* in the room puts it on the centre (4, 4) and returns that position; an
\* add_client of a client that is in the room, wherever it has moved,
\* returns its current position and leaves the client-position map as it is.
C11_AddClientIdempotent ==
    [][ \A c \in {IdA, Id1} :
          MoveStep("add_client", c) =>
              IF c \in DOMAIN clients
              THEN /\ clients' = clients
                   /\ ret' = [kind |-> "added", pos |-> clients[c]]
              ELSE /\ clients' = (c :> Center) @@ clients
                   /\ ret' = [kind |-> "added", pos |-> Center] ]_vars

\* C11 witness: a client that moved away from the centre was added again
\* and got the position it had moved to.
C11_Witness ==
    /\ pc = "applied"
    /\ cur.method = "add_client"
    /\ ret.kind = "added"
    /\ ret.pos # Center
    /\ clients[cur.client] = ret.pos

\* C12: exit signalling.  For a client in the room, left returns 'exit
\* left' exactly when x was 0 and right 'exit right' exactly when x was 8,
\* and then the position is unchanged; up and down return 'move up' and
\* 'move down' always, with the position unchanged at y = 8 and at y = 0.
C12_ExitSignalling ==
    [][ \A c \in DOMAIN clients :
          /\ MoveStep("left", c) =>
                /\ ret' = IF clients[c][1] = 0 THEN Success("exit left")
                                               ELSE Success("move left")
                /\ clients[c][1] = 0 => clients'[c] = clients[c]
          /\ MoveStep("right", c) =>
                /\ ret' = IF clients[c][1] = room_dimension
                          THEN Success("exit right")
                          ELSE Success("move right")
                /\ clients[c][1] = room_dimension => clients'[c] = clients[c]
          /\ MoveStep("up", c) =>
                /\ ret' = Success("move up")
                /\ clients[c][2] = room_dimension => clients'[c] = clients[c]
          /\ MoveStep("down", c) =>
                /\ ret' = Success("move down")
                /\ clients[c][2] = 0 => clients'[c] = clients[c] ]_vars

\* C12 witness: a client at the left wall pushed against it, stayed at
\* x = 0 and was told 'exit left'.
C12_Witness ==
    /\ pc = "applied"
    /\ cur.method = "left"
    /\ ret = Success("exit left")
    /\ clients[cur.client] = << 0, 4 >>

\* C13 (as claimed): interact never raises.  Every interact request, of
\* whatever client, gets a {msg: ...} response.
C13_InteractNeverRaises ==
    [][ (ip' = ip + 1 /\ plan.ev[ip + 1].m = "interact") => ret'.kind = "msg" ]_vars

\* C14 (as claimed): no request terminates a room.  A step that receives
\* a request carrying method and client leaves the room running.
C14_NoRequestTerminates ==
    [][ ( /\ ip' = ip + 1
          /\ plan.ev[ip + 1].s \in Socks
          /\ plan.ev[ip + 1].m \notin NotRequests
          /\ cur' = Request(plan.ev[ip + 1]) )
        => pc' # "down" ]_vars

\* C15 (as claimed): disconnect cleanup.  When a stream connection ends,
\* whether it ever sent a valid request, whether its client ever supplied
\* broadcast_addr, and whether another connection runs under the same
\* client id, the room removes the socket from the poll set and from the
\* socket-to-client map, leaves log and checkpoint untouched, and keeps
\* running.
C15_DisconnectCleanup ==
    [][ \A s \in Socks :
          (ip' = ip + 1 /\ plan.ev[ip + 1] = Ev(s, "close")) =>
              /\ pc' = "round"
              /\ s \notin conns'
              /\ s \notin DOMAIN socket_id_map'
              /\ log' = log
              /\ ckpt' = ckpt ]_vars

\* C16 (as claimed): in every reachable state the errors counter of the
\* server equals the number of error responses it has produced so far.
C16_ErrorsCounted == errors = error_responses

\* The step broadcasts a snapshot.
Broadcasts ==
    /\ pc = "round"
    /\ pc' = "poll"
    /\ broadcast_with_udp
    /\ need_to_broadcast
    /\ SnapshotGoesOut

\* C17: the frames of the snapshots one running room server broadcasts
\* are strictly increasing: a snapshot that is sent carries a frame
\* greater than that of the snapshot the same server sent last (and so of
\* every earlier one), and no other step changes the frame last sent.
C17_FramesIncrease ==
    [][ pc \notin {"down", "returned"} =>
            IF Broadcasts
            THEN last_frame' > last_frame /\ last_frame' = frames'
            ELSE last_frame' = last_frame ]_vars

\* C17 witness: a server whose first snapshots were dropped (a connected
\* client was not in the room) has sent one, with the frame the dropped
\* ones had counted up to.
C17_Witness ==
    /\ pc = "poll"
    /\ plan = Started(ErrorPlan, TRUE)
    /\ last_frame >= 4
    /\ last_frame = frames

\* C18 (as claimed): idle shutdown.  Once a room whose last connection
\* was removed has been without a connection, and without anything
\* arriving, for shutdown_timeout plus one poll interval, it has sent
\* shutdown_room to the cluster (and goes on to close its files and
\* return).
C18_IdleShutdown ==
    idle_for - 1 > shutdown_timeout + 1 => pc \in {"closing", "returned"}

\* C19: reap safety.  In no reachable state is the room absent from the
\* cluster's directory while its server loop is still running: the
\* cluster removes the room id only once the room's future has completed.
C19_ReapSafety ==
    /\ [](room_id \notin server_map => pc \in {"returned", "down"})
    /\ [][ (room_id \in server_map /\ room_id \notin server_map' /\ pc' # "down")
           => (pc = "returned" /\ futures[room_id] = "done") ]_vars

\* C19 witness: the cluster, asked to shut the room down while a client
\* was in it, has waited for the room to return and then removed it.
C19_Witness ==
    /\ plan = Started(ReapPlan, TRUE)
    /\ room_id \notin server_map
    /\ pc = "returned"
    /\ ~shutdown_msg
    /\ cl_pc = "serve"

\* The step is a get_room_server that finds the room absent.
Respawns == pc = "returned" /\ pc' \in {"poll", "queued"}

\* C20: reap liveness.  When a room has sent shutdown_room as its final
\* act, it returns and the cluster's wait ends, so the room id comes to be
\* absent from the directory; and the get_room_server that then finds it
\* absent starts a new room server, entered in the directory and running
\* or waiting for a worker of the executor.
C20_ReapLiveness ==
    /\ (pc = "closing") ~> (room_id \notin server_map)
    /\ [][ Respawns => /\ room_id \in server_map'
                       /\ futures'[room_id] \in {"running", "queued"}
                       /\ frames' = 0 ]_vars

\* C20 witness: a room that was reaped has been started anew by
\* get_room_server, in a process that was never killed.
C20_Witness ==
    /\ pc = "poll"
    /\ boots > 0
    /\ died = "never"
    /\ room_id \in server_map
    /\ futures[room_id] = "running"

\* The step receives, on a connection of the room, a request of a method
\* the engine does not have.
UnknownStep ==
    /\ ip' = ip + 1
    /\ plan.ev[ip + 1].s \in Socks
    /\ plan.ev[ip + 1].m \notin command_map \cup NotRequests

\* C25: a request whose method is not in the engine's command map is
\* answered with an error response, and nothing is appended to the log,
\* log_length and the checkpoint stay as they are, and the engine's clients
\* and items are unchanged.
C25_UnknownMethod ==
    [][ UnknownStep =>
            /\ ret'.kind = "error"
            /\ pc' = "round"
            /\ log' = log
            /\ log_length' = log_length
            /\ ckpt' = ckpt
            /\ room' = room
            /\ clients' = clients ]_vars

\* C25 witness: a client in the room has sent 'jump' and got the error.
C25_Witness ==
    /\ pc = "round"
    /\ cur.method = "jump"
    /\ ret = UnknownMethod
    /\ cur.client \in DOMAIN clients
    /\ log # << >>

\* The clients the server can know to be connected when it answers the
\* request cmd: those that sent a request on a connection that is open, the
\* sender of cmd included.
Connected(cmd) ==
    { socket_id_map[s] : s \in conns \cap DOMAIN socket_id_map }
    \cup {cmd.client}

\* C26 (as claimed): a get_room response lists exactly the clients of the
\* room that have an open connection to it, each with its position.
C26_GetRoomConnected ==
    [][ (ip' = ip + 1 /\ plan.ev[ip + 1].m = "get_room" /\ pc' = "applied")
        => ret'.clients =
              [c \in Connected(cur') \cap DOMAIN clients |-> clients[c]] ]_vars

\* C27 (as claimed): with UDP enabled, the end of a poll round increments
\* the frame (and broadcasts) if and only if a command acting on the
\* engine was processed in the round.
C27_BroadcastIffMutating ==
    [][ (pc = "round" /\ pc' = "poll" /\ broadcast_with_udp)
        => ((frames' # frames) <=> mutated_now) ]_vars

\* C28 (as claimed): between the rounds of a running room, the connection
\* table has entries only for clients with a live connection.
C28_ConnectionsLive ==
    pc = "poll" =>
        DOMAIN connections \subseteq
            { socket_id_map[s] : s \in conns \cap DOMAIN socket_id_map }

C30_UdpAsConfigured ==
    pc # "down" => (broadcast_with_udp <=> plan.use_udp)

\* The step is a get_room_server that finds the room in the directory.
LooksUp ==
    /\ ip' = ip + 1
    /\ plan.ev[ip + 1] = Ev("ops", "get_room_server")

\* C21: get_room_server returns the existing room or spawns one.  A call
\* that follows another one for the room, no shutdown_room for it in
\* between, starts no server and returns the address the earlier call
\* returned; a running cluster spawns a server only on a call that has no
\* such predecessor, and then into a directory that does not hold the room.
C21_OneServerPerRoom ==
    /\ [][ (LooksUp /\ addr_given # 0)
           => (addr_given' = addr_given /\ boots' = boots /\ pc' = pc) ]_vars
    /\ [][ (boots' # boots /\ pc # "down")
           => (addr_given = 0 /\ room_id \notin server_map) ]_vars

\* C21 witness: the room was asked for, shut down and reaped, spawned
\* anew, and asked for again: the second server's address was returned.
C21_Witness ==
    /\ plan = Started(AskPlan, TRUE)
    /\ ip = Len(plan.ev)
    /\ boots = 1
    /\ died = "never"
    /\ addr_given = AddrOf(boots)

\* C22 (as claimed): room isolation.  A step of another room of the
\* cluster (an interact of one of its clients, the end of one of its
\* rounds) changes neither the items nor the clients of this room.
C22_RoomIsolation ==
    [][ OtherStep => (room' = room /\ clients' = clients) ]_vars

\* C24 (as claimed): a malformed checkpoint never prevents a room from
\* starting.  Whether the checkpoint file has the wrong number of lines,
\* lines that are no JSON, or lines that do not parse to maps, a start of
\* the room brings it to its poll loop with the state that the freshly
\* drawn room and the replay of the log give, the checkpoint ignored.
C24_MalformedCkptIgnored ==
    [][ ( /\ pc = "down"
          /\ ckpt.exists
          /\ ckpt.form \in CkptForms
          /\ boots' = boots + 1 )
        => /\ pc' = "poll"
           /\ \E cell \in RandCells, t \in 1..Len(INTERACTIVE_ITEMS) :
                LET S == Startup(INTERACTIVE_ITEMS, cell, t, log, NoCkpt)
                IN  room' = S.room /\ clients' = S.clients ]_vars

\* C23 (as claimed): framing.  For every payload followed by
\* END_OF_MESSAGE or ALT_TERMINATION and for every way the characters are
\* split into successive reads, once the last read is taken the receiver
\* has returned exactly the payload, the terminator stripped.
C23_Framing == chunks = << >> => out = payload

\* C39 (as claimed): the room map a get_room returns has one entry for
\* every item of the room: as many item entries as the room has occupied
\* item cells, also when two items have the same name.
C39_OneEntryPerItem ==
    [][ ( /\ ip' = ip + 1
          /\ plan.ev[ip + 1].s \in Socks
          /\ plan.ev[ip + 1].m = "get_room"
          /\ pc' = "applied"
          /\ ret'.kind = "room" )
        => Cardinality(DOMAIN ret'.items) = Cardinality(DOMAIN room') ]_vars

\* C31 (as claimed): the worker pool imposes no maximum on the rooms that
\* run at the same time, so no room that get_room_server spawned waits for
\* another room to finish: a spawned room is never in the executor's queue.
C31_NoRoomWaits == pc # "queued" /\ futures[room_id] # "queued"

\* The client whose frame the room is reading sends nothing (more).
Silent == ip = Len(plan.ev) \/ plan.ev[ip + 1].s # cur.sock

\* C32 (as claimed): a stuck receive does not block a room forever.  When
\* the room waits in a read for the rest of a frame and the client stays
\* silent with its connection open, the room comes to give up that read.
C32_StuckReceiveEnds == (pc = "recv" /\ Silent) ~> (pc # "recv")

\* The room died inside the checkpoint procedure: before the checkpoint
\* was written, between its rename and the truncation of the log, or right
\* after the truncation.
DiedInCkpt ==
    \/ died \in {"ckpt", "trunc"}
    \/ /\ died = "round"
       /\ log = << >>
       /\ ckpt = CkptOf(Eng(room, clients))

\* C33 (as claimed): crash consistency of checkpointing.  A room that died
\* inside the checkpoint procedure holds after the restart the client
\* positions (the ids as JSON writes them) and the item uses the engine
\* held after the last logged command, those it died with.  (Without a
\* checkpoint the drawn item is a new one, so the chest of '1:1' alone is
\* compared.)
C33_CkptCrashConsistency ==
    [][ (pc = "down" /\ pc' = "poll" /\ DiedInCkpt)
        => /\ JsonDict(clients') = JsonDict(clients)
           /\ \A p \in IF ckpt.exists THEN DOMAIN room ELSE {FixedCell} :
                 /\ p \in DOMAIN room'
                 /\ room'[p].uses = room[p].uses ]_vars

\* C34 (as claimed): restart is idempotent.  A room that was restarted
\* and, having read no request, is restarted again holds after the second
\* restart the client positions and the item uses it held after the first.
\* (Without a checkpoint the drawn item is a new one, so the chest of '1:1'
\* alone is compared.)
C34_RestartIdempotent ==
    [][ (pc = "down" /\ pc' = "poll" /\ boots >= 1 /\ quiet)
        => /\ clients' = clients
           /\ \A p \in IF ckpt.exists THEN DOMAIN room ELSE {FixedCell} :
                 /\ p \in DOMAIN room'
                 /\ room'[p].uses = room[p].uses ]_vars

\* C35 (as claimed): every address get_room_server returns is that of a
\* room server whose run_server has not ended (it has neither returned,
\* its listening socket closed, nor been ended by an exception).
C35_AddressIsLive ==
    [][ (LooksUp /\ addr_given' # 0) => pc' \notin {"returned", "down"} ]_vars

\* C36 (as claimed): the server that runs the Cluster engine never takes
\* the idle-shutdown path; its loop neither returns nor ends.
C36_ClusterNeverShutsDown == cl_pc \in {"serve", "wait"}

\* C37 (as claimed): a shutdown_room request that names an id the cluster
\* holds no future for is answered, leaves the room directory as it was
\* and leaves the cluster serving.
C37_UnknownRoomAnswered ==
    [][ (ip' = ip + 1 /\ plan.ev[ip + 1] = Ev("ops", "shutdown_room_unknown"))
        => (cl_pc' = "serve" /\ server_map' = server_map) ]_vars

\* C38 (as claimed): under one room id the frame numbers of the snapshots
\* sent grow strictly, also across a respawn or a restart of the room: a
\* snapshot that is sent carries a frame above every frame sent before it.
C38_FramesIncrease ==
    [][ (last_frame' # last_frame /\ last_frame' # 0)
        => last_frame' > seen ]_vars

====
